---- MODULE Spec2Model ----
(***************************************************************************)
(* Extensive form games (sage/game_theory/extensive_form_game.py).         *)
(*                                                                         *)
(* The state is a small world of EFG_Node / EFG_Leaf / EFG_Player objects  *)
(* wired by the user, plus the attributes of one ExtensiveFormGame built   *)
(* from the root node "r".  Objects are compared by identity, as the       *)
(* Python classes define no __eq__.  The value False of the source is the  *)
(* string "False" for name, parent and player.                             *)
(***************************************************************************)
EXTENDS Integers, Sequences, FiniteSets, TLC

\* Longest node_list handed to set_info_set / remove_info_set.
MaxArgs == 2

FalseVal == "False"

NodeObjs == {"r", "a", "b"}

LeafObjs == {"l1", "l2", "l3", "l4", "l5", "l6"}

\* The EFG_Player objects; "Q1" is a second EFG_Player('Player 1').
PlayerObjs == {"P1", "P2", "P3", "Q1"}

Objs == NodeObjs \cup LeafObjs

VARIABLES
    name,        \* EFG_Node.name / EFG_Leaf.name of every object
    player,      \* EFG_Node.player
    actions,     \* EFG_Node.actions (ordered labels)
    children,    \* EFG_Node.children (ordered objects)
    parent,      \* EFG_Node.parent / EFG_Leaf.parent
    node_input,  \* type(EFG_Node.node_input): "dict" or "list"
    payoffs,     \* EFG_Leaf.payoffs: a dictionary from players to numbers
    pc,          \* "new" before ExtensiveFormGame(r), then "built" or "failed";
                 \* in ExtensiveFormGame(gambit_game): "converted" once the objects
                 \* are made, "constructed" once the game of the converted root
                 \* is built, "imported" at the end
    tree_root,   \* ExtensiveFormGame.tree_root
    nodes,       \* ExtensiveFormGame.nodes
    leafs,       \* ExtensiveFormGame.leafs
    players,     \* ExtensiveFormGame.players
    info_sets,   \* ExtensiveFormGame.info_sets
    gambit_game, \* the Gambit game the call just made has produced, NoGambit if none
    sage_game,   \* the game gambit_game was exported from, kept while gambit_game
                 \* is read back: its objects and attributes, NoSage otherwise
    last         \* the call just made, until the caller resumes: its name, its
                 \* node_list, the info_sets before it, the error raised, the value returned

topology == <<name, player, actions, children, parent, node_input, payoffs, tree_root, nodes, leafs,
              players>>

vars == <<name, player, actions, children, parent, node_input, payoffs, pc, tree_root, nodes, leafs,
          players, info_sets, gambit_game, sage_game, last>>

----------------------------------------------------------------------------
(* Orders used by the sorts of the source.                                 *)

\* Python 2 string order of the names that occur; False sorts before any string.
NameOrder == <<"False", "Leaf 1", "Leaf 2", "Leaf 3", "Leaf 4", "Leaf 5", "Leaf 6",
               "Node 1", "Node 2", "Node 3", "Player 1", "Player 2", "Player 3", "Tree Root">>

NameRank == [n \in {NameOrder[i] : i \in 1..Len(NameOrder)} |->
                CHOOSE i \in 1..Len(NameOrder) : NameOrder[i] = n]

\* Python 2 string order of the action labels that occur.
LabelOrder == <<"Action 1", "Action 2", "X", "Y", "Z">>

LabelRank == [l \in {LabelOrder[i] : i \in 1..Len(LabelOrder)} |->
                CHOOSE i \in 1..Len(LabelOrder) : LabelOrder[i] = l]

\* EFG_Player.name, and its place in the string order.
PlayerName == [P1 |-> "Player 1", P2 |-> "Player 2", P3 |-> "Player 3", Q1 |-> "Player 1"]

PlayerNameRank == [p \in PlayerObjs |-> NameRank[PlayerName[p]]]

\* player.name for whatever value a node carries as its player: an EFG_Player,
\* or an EFG_Leaf handed in as player, whose name is its own.
PlayerNameIn(p, nm) == IF p \in PlayerObjs THEN PlayerName[p] ELSE nm[p]

\* list < list on lists of labels: lexicographic, a proper prefix is smaller.
RECURSIVE ListLt(_, _)
ListLt(s, t) ==
    IF t = <<>> THEN FALSE
    ELSE IF s = <<>> THEN TRUE
    ELSE IF Head(s) # Head(t) THEN LabelRank[Head(s)] < LabelRank[Head(t)]
    ELSE ListLt(Tail(s), Tail(t))

\* x < y for parent values: False is below every instance, two instances
\* compare by address.
ParentLt(p, q, addr) ==
    /\ p # q
    /\ \/ p = FalseVal
       \/ (q # FalseVal /\ addr[p] < addr[q])

\* One step of a stable sort: x goes behind every element whose key is not
\* above its own.  key maps the elements to integers.
RECURSIVE InsertByKey(_, _, _)
InsertByKey(s, x, key) ==
    IF s = <<>> THEN <<x>>
    ELSE LET n == Len(s)
         IN  IF key[s[n]] <= key[x] THEN Append(s, x)
             ELSE Append(InsertByKey(SubSeq(s, 1, n - 1), x, key), s[n])

\* sorted(s, key=...) for integer keys: stable.
RECURSIVE SortByKey(_, _)
SortByKey(s, key) ==
    IF s = <<>> THEN <<>>
    ELSE InsertByKey(SortByKey(SubSeq(s, 1, Len(s) - 1), key), s[Len(s)], key)

\* sorted(labels): the labels in increasing order, repetitions kept.
SortedLabels(s) == SortByKey(s, LabelRank)

\* sorted(..., key=attrgetter('name')) with the names nm.
SortByNameIn(s, nm) == SortByKey(s, [o \in DOMAIN nm |-> NameRank[nm[o]]])

\* list.sort(key=lambda x: x.name) / sorted(..., key=attrgetter('name')).
SortByName(s) == SortByNameIn(s, name)

\* info_sets.sort(key=lambda x: x[0].name): stable, by the first member's name.
SortInfoSetsIn(is, nm) ==
    LET idx == SortByKey([i \in 1..Len(is) |-> i],
                         [i \in 1..Len(is) |-> NameRank[nm[is[i][1]]]])
    IN  [k \in 1..Len(is) |-> is[idx[k]]]

SortInfoSets(is) == SortInfoSetsIn(is, name)

\* The place of each element among the keys (parent, rest), the parents
\* compared by ParentLt and rest an integer: the number of elements below it.
PairRank(S, par, rest, addr) ==
    [x \in S |-> Cardinality({y \in S :
                    \/ ParentLt(par[y], par[x], addr)
                    \/ (par[y] = par[x] /\ rest[y] < rest[x])})]

\* The place of each node's action list among the action lists.
ActionsRank(S) == [x \in S |-> Cardinality({y \in S : ListLt(actions[y], actions[x])})]

\* nodes.sort(key=attrgetter('parent', 'actions')): stable.
SortByParentActions(s, addr) ==
    LET S == {s[i] : i \in 1..Len(s)}
    IN  SortByKey(s, PairRank(S, parent, ActionsRank(S), addr))

\* nodes.sort(key=attrgetter('name', 'parent')): stable.
SortByNameParent(s, nm, addr) ==
    LET S == {s[i] : i \in 1..Len(s)}
        byParent == PairRank(S, parent, [x \in S |-> 0], addr)
    IN  SortByKey(s, [x \in S |-> NameRank[nm[x]] * (Cardinality(S) + 1) + byParent[x]])

\* players.sort(key=attrgetter('name')): stable.
SortPlayers(s, nm) ==
    SortByKey(s, [p \in {s[i] : i \in 1..Len(s)} |->
                    IF p \in PlayerObjs THEN PlayerNameRank[p] ELSE NameRank[PlayerNameIn(p, nm)]])

----------------------------------------------------------------------------
(* The node graphs the user builds before constructing the game.           *)

\* Three wirings of r, a, b: a one-decision tree (a and b belong to no game),
\* two siblings under the root, and a chain.
Shapes ==
    { [r |-> <<"l1", "l2">>, a |-> <<"l3", "l4">>, b |-> <<"l5", "l6">>],
      [r |-> <<"a", "b">>,   a |-> <<"l1", "l2">>, b |-> <<"l3", "l4">>],
      [r |-> <<"a", "l1">>,  a |-> <<"b", "l2">>,  b |-> <<"l3", "l4">>] }

PlayerProfiles ==
    { [r |-> "P1", a |-> "P2", b |-> "P2"],
      [r |-> "P1", a |-> "P1", b |-> "P2"] }

ActionProfiles ==
    { [r |-> <<"X", "Y">>, a |-> <<"Y", "X">>, b |-> <<"X", "Y">>],
      [r |-> <<"X", "Y">>, a |-> <<"X", "Y">>, b |-> <<"Z", "Y">>] }

\* All unnamed, or a named 'Node 1' by the user.
NameProfiles ==
    { [r |-> FalseVal, a |-> FalseVal, b |-> FalseVal],
      [r |-> FalseVal, a |-> "Node 1", b |-> FalseVal] }

\* A number is whole + 0.frac, frac the decimal digits behind the point.
Num(w) == [whole |-> w, frac |-> <<>>]

\* The floats float(1)/3 and float(2)/3, to the 16 digits a float holds.
OneThird == [whole |-> 0, frac |-> <<3, 3, 3, 3, 3, 3, 3, 3, 3, 3, 3, 3, 3, 3, 3, 3>>]

TwoThirds == [whole |-> 0, frac |-> <<6, 6, 6, 6, 6, 6, 6, 6, 6, 6, 6, 6, 6, 6, 6, 6>>]

\* The payoffs dictionaries handed to EFG_Leaf: leaf number k pays k to the
\* first player and 7 - k to the second, leaf l2 pays floats.
LeafPayoffs ==
    LET number == [l1 |-> 1, l2 |-> 2, l3 |-> 3, l4 |-> 4, l5 |-> 5, l6 |-> 6]
    IN  [l \in LeafObjs |->
            IF l = "l2" THEN [P1 |-> TwoThirds, P2 |-> OneThird]
            ELSE [P1 |-> Num(number[l]), P2 |-> Num(7 - number[l])]]

\* The payoffs dictionaries of a game of three players: the third is paid 0.
LeafPayoffs3 ==
    [l \in LeafObjs |-> [p \in {"P1", "P2", "P3"} |->
                            IF p = "P3" THEN Num(0) ELSE LeafPayoffs[l][p]]]

\* The well-formed inputs: every node is built from a dictionary.
ValidInputs ==
    { [children |-> sh, player |-> pl, actions |-> ac, name |-> nm,
       node_input |-> [n \in NodeObjs |-> "dict"]] :
        sh \in Shapes, pl \in PlayerProfiles, ac \in ActionProfiles, nm \in NameProfiles }

\* Two siblings under the root, all unnamed: the input the defective ones vary.
BaseInput ==
    [children |-> [r |-> <<"a", "b">>, a |-> <<"l1", "l2">>, b |-> <<"l3", "l4">>],
     player |-> [r |-> "P1", a |-> "P2", b |-> "P2"],
     actions |-> [r |-> <<"X", "Y">>, a |-> <<"Y", "X">>, b |-> <<"X", "Y">>],
     name |-> [n \in NodeObjs |-> FalseVal],
     node_input |-> [n \in NodeObjs |-> "dict"]]

\* Inputs that are not a tree of complete nodes owned by players: a leaf under
\* two nodes, a node under two nodes, a node built from a list of actions (it
\* has no children), a node without a player, a node or a root whose player is
\* a leaf object, a root without player, a root built from a list, from the
\* empty list or from the empty dictionary, a shared leaf next to a node
\* without player, and a child built from the empty dictionary.
DefectiveInputs ==
    { [BaseInput EXCEPT !.children.b = <<"l1", "l3">>],
      [BaseInput EXCEPT !.children.a = <<"b", "l1">>, !.children.b = <<"l2", "l3">>],
      [BaseInput EXCEPT !.children.b = <<>>, !.node_input.b = "list"],
      [BaseInput EXCEPT !.player.b = FalseVal],
      [BaseInput EXCEPT !.player.b = "l1"],
      [BaseInput EXCEPT !.player.r = "l1"],
      [BaseInput EXCEPT !.player.r = FalseVal],
      [BaseInput EXCEPT !.children.r = <<>>, !.node_input.r = "list"],
      [BaseInput EXCEPT !.children.r = <<>>, !.actions.r = <<>>, !.node_input.r = "list"],
      [BaseInput EXCEPT !.children.r = <<>>, !.actions.r = <<>>],
      [BaseInput EXCEPT !.children.b = <<"l1", "l3">>, !.player.b = FalseVal],
      [BaseInput EXCEPT !.children.b = <<>>, !.actions.b = <<>>] }

\* Two siblings that list the same actions in the same order.
TwinInput == [BaseInput EXCEPT !.actions.a = <<"X", "Y">>]

\* Three nodes owned by three players.
ThreePlayerInput == [BaseInput EXCEPT !.player.b = "P3"]

\* Two siblings owned by two EFG_Player objects of one name.
NamesakeInput == [BaseInput EXCEPT !.player = [r |-> "P2", a |-> "P1", b |-> "Q1"]]

\* A chain r -> a -> b whose node b was given a as first child after it was
\* built (node_b.children[0] = node_a): a is its own descendant.
CyclicInput ==
    [BaseInput EXCEPT !.children = [r |-> <<"a", "l1">>, a |-> <<"b", "l2">>,
                                    b |-> <<"a", "l3">>]]

Inputs ==
    ValidInputs \cup {TwinInput, ThreePlayerInput, NamesakeInput, CyclicInput}
        \cup DefectiveInputs

\* The nodes below the nodes of S in the wiring ch.
RECURSIVE Descendants(_, _)
Descendants(ch, S) ==
    LET T == S \cup {c \in NodeObjs : \E n \in S : \E i \in 1..Len(ch[n]) : ch[n][i] = c}
    IN  IF T = S THEN S ELSE Descendants(ch, T)

\* EFG_Node.__init__: every child of a dictionary input gets the node as
\* parent, so an object keeps the parent built last.  A node is built after
\* the nodes below it: the candidates are the nodes holding o that lie below
\* no other node holding o.
LastParents(ch, o) ==
    LET W == {n \in NodeObjs : \E i \in 1..Len(ch[n]) : ch[n][i] = o}
    IN  {p \in W : \A q \in W \ {p} :
            p \notin Descendants(ch, {c \in NodeObjs : \E i \in 1..Len(ch[q]) : ch[q][i] = c})}

\* The parent of o when, of the candidates, built_last was built last.
ParentOf(ch, o, built_last) ==
    IF LastParents(ch, o) = {} THEN FalseVal
    ELSE IF built_last \in LastParents(ch, o) THEN built_last
    ELSE CHOOSE n \in LastParents(ch, o) : TRUE

\* No Gambit game is at hand.
NoGambit == [players |-> <<>>, infosets |-> <<>>, outcomes |-> <<>>, nodes |-> <<>>]

\* No exported game is kept.
NoSage == [actions |-> <<>>, children |-> <<>>, payoffs |-> <<>>, players |-> <<>>,
           info_sets |-> <<>>]

\* No call is on record.
NoCall == [op |-> "none", node_list |-> <<>>, pre |-> <<>>, raised |-> "none", ret |-> FALSE]

Init ==
    \E inp \in Inputs, built_last \in NodeObjs :
        /\ children = inp.children
        /\ player = inp.player
        /\ actions = inp.actions
        /\ node_input = inp.node_input
        /\ name = [o \in Objs |-> IF o \in NodeObjs THEN inp.name[o] ELSE FalseVal]
        /\ parent = [o \in Objs |-> ParentOf(inp.children, o, built_last)]
        /\ payoffs = IF inp = ThreePlayerInput THEN LeafPayoffs3 ELSE LeafPayoffs
        /\ gambit_game = NoGambit
        /\ sage_game = NoSage
        /\ pc = "new"
        /\ tree_root = FalseVal
        /\ nodes = <<>>
        /\ leafs = <<>>
        /\ players = <<>>
        /\ info_sets = <<>>
        /\ last = NoCall

----------------------------------------------------------------------------
(* Construction: ExtensiveFormGame(r).                                     *)

IsLeaf(o) == o \in LeafObjs

Contains(s, x) == \E i \in 1..Len(s) : s[i] = x

\* node.actions is False: the node was built from the empty list.
actions_is_False(n) == node_input[n] = "list" /\ actions[n] = <<>>

\* node.children is False: the node was built from a list of actions.
children_is_False(n) == node_input[n] = "list"

\* EFG_Node._is_complete: all([parent, actions, children, player]); an empty
\* list counts as False.
is_complete(n) ==
    /\ parent[n] # FalseVal
    /\ actions[n] # <<>>
    /\ children[n] # <<>>
    /\ player[n] # FalseVal

\* EFG_Node._player_check passes: the player is False or an EFG_Player.
player_check(n) == player[n] = FalseVal \/ player[n] \in PlayerObjs

\* Index of the first child of "checking" at which the loop raises, 0 if none.
FirstRaising(kids) ==
    LET bad == {i \in 1..Len(kids) :
                    ~IsLeaf(kids[i]) /\ (~is_complete(kids[i]) \/ ~player_check(kids[i]))}
    IN  IF bad = {} THEN 0 ELSE CHOOSE i \in bad : \A j \in bad : i <= j

\* The longest list "checked" of a loop that ends.  Without a cycle a node is
\* taken from the stack once per path from the root, 2^(n-1) times at most
\* with n node objects, and each time it adds its children.
WalkLimit == 2 ^ (Cardinality(NodeObjs) - 1) * Cardinality(Objs)

\* The while loop of _grow_tree_dictionary: to_check is a stack, checked the
\* children met so far.  Nothing remembers the nodes already taken from the
\* stack: on a cycle of complete nodes the loop puts them back for ever.
RECURSIVE grow_walk(_, _)
grow_walk(to_check, checked) ==
    IF to_check = <<>> THEN [raised |-> "none", checked |-> checked]
    ELSE IF Len(checked) > WalkLimit THEN [raised |-> "never ends", checked |-> checked]
    ELSE LET checking == to_check[Len(to_check)]
             rest == SubSeq(to_check, 1, Len(to_check) - 1)
             kids == children[checking]
             bad == FirstRaising(kids)
         IN  IF bad # 0
             THEN [raised |-> IF ~is_complete(kids[bad]) THEN "incomplete node"
                              ELSE "invalid player",
                   checked |-> checked]
             ELSE grow_walk(rest \o SelectSeq(kids, LAMBDA c : ~IsLeaf(c)),
                            checked \o kids)

\* Keys of the dictionary d of _grow_tree_dictionary.
tree_dictionary_keys(root, checked) ==
    {checked[i] : i \in {j \in 1..Len(checked) : ~IsLeaf(checked[j])}} \cup {root}

RECURSIVE Component(_, _)
Component(S, E) ==
    LET T == S \cup {v \in UNION E : \E e \in E : v \in e /\ e \cap S # {}}
    IN  IF T = S THEN S ELSE Component(T, E)

\* Faulty variant of is_tree: the graph only has to be connected.
is_tree_connected_only(keys) ==
    LET E == UNION {{{k, children[k][i]} : i \in 1..Len(children[k])} : k \in keys}
        V == keys \cup UNION E
    IN  Component({CHOOSE v \in V : TRUE}, E) = V

\* Graph(d).is_tree(): connected, and one edge less than vertices.
is_tree(keys) ==
    LET E == UNION {{{k, children[k][i]} : i \in 1..Len(children[k])} : k \in keys}
        V == keys \cup UNION E
    IN  /\ Component({CHOOSE v \in V : TRUE}, E) = V
        /\ Cardinality(V) = Cardinality(E) + 1

NodeName(i) == <<"Node 1", "Node 2", "Node 3">>[i]

LeafName(i) == <<"Leaf 1", "Leaf 2", "Leaf 3", "Leaf 4", "Leaf 5", "Leaf 6">>[i]

\* "for child in node.children" of _check_node_names_and_find_players.
RECURSIVE name_children(_, _, _)
name_children(kids, j, acc) ==
    IF j > Len(kids) THEN acc
    ELSE LET c == kids[j]
         IN  IF IsLeaf(c) /\ acc.nm[c] = FalseVal
             THEN name_children(kids, j + 1,
                      [acc EXCEPT !.nm[c] = LeafName(acc.leaf_index),
                                  !.leaf_index = @ + 1,
                                  !.leafs = Append(@, c)])
             ELSE IF IsLeaf(c)
             THEN name_children(kids, j + 1, [acc EXCEPT !.leafs = Append(@, c)])
             ELSE name_children(kids, j + 1, acc)

\* "for node in self.nodes" of _check_node_names_and_find_players.
RECURSIVE name_nodes(_, _, _, _)
name_nodes(generator, ns, i, acc) ==
    IF i > Len(ns) THEN acc
    ELSE LET node == ns[i]
             a1 == IF Contains(acc.players, player[node]) THEN acc
                   ELSE [acc EXCEPT !.players = Append(@, player[node])]
             a2 == IF node = generator /\ a1.nm[node] = FalseVal
                   THEN [a1 EXCEPT !.nm[node] = "Tree Root"] ELSE a1
             a3 == IF a2.nm[node] = FalseVal
                   THEN [a2 EXCEPT !.nm[node] = NodeName(a2.node_index),
                                   !.node_index = @ + 1]
                   ELSE a2
         IN  name_nodes(generator, ns, i + 1, name_children(children[node], 1, a3))

\* _check_node_names_and_find_players: sorts the nodes by (parent, actions),
\* then names them and collects players and leaves.
check_node_names_and_find_players(generator, ns, addr) ==
    name_nodes(generator, SortByParentActions(ns, addr), 1,
               [players |-> <<>>, nm |-> name, leafs |-> <<>>,
                node_index |-> 1, leaf_index |-> 1])

\* The orders in which d.keys() may list a set of keys.
KeyOrders(S) ==
    {s \in [1..Cardinality(S) -> S] : \A i, j \in 1..Cardinality(S) : s[i] = s[j] => i = j}

\* The addresses the node objects may have.
Addrs == {f \in [NodeObjs -> 1..Cardinality(NodeObjs)] :
            \A x, y \in NodeObjs : f[x] = f[y] => x = y}

\* [[node] for node in ns]
Singletons(ns) == [i \in 1..Len(ns) |-> <<ns[i]>>]

InitCall(err) == [op |-> "init", node_list |-> <<>>, pre |-> <<>>, raised |-> err, ret |-> FALSE]

\* ExtensiveFormGame.__init__ with the EFG_Node r as generator: the root the
\* user wired, or the converted root of a Gambit game that is being read.
\* While _grow_tree_dictionary is in a loop without end the call is at
\* "walking": it neither returns nor raises.
ExtensiveFormGame ==
    /\ pc \in {"new", "converted"}
    /\ LET generator == "r"
           walk == grow_walk(<<generator>>, <<>>)
           keys == tree_dictionary_keys(generator, walk.checked)
       IN  IF actions_is_False(generator) \/ children_is_False(generator)
              \/ player[generator] = FalseVal
           THEN /\ pc' = "failed"
                /\ last' = InitCall(IF actions_is_False(generator) THEN "root has no actions"
                                    ELSE IF children_is_False(generator)
                                    THEN "root has no children"
                                    ELSE "root has no player")
                /\ UNCHANGED <<topology, info_sets, gambit_game, sage_game>>
           ELSE IF walk.raised = "never ends"
           THEN /\ pc' = "walking"
                /\ tree_root' = generator
                /\ UNCHANGED <<name, player, actions, children, parent, node_input, payoffs,
                               nodes, leafs, players, info_sets, gambit_game, sage_game,
                               last>>
           ELSE IF walk.raised # "none" \/ ~is_tree(keys)
           THEN /\ pc' = "failed"
                /\ tree_root' = generator
                /\ last' = InitCall(IF walk.raised # "none" THEN walk.raised ELSE "not a tree")
                /\ UNCHANGED <<name, player, actions, children, parent, node_input, payoffs,
                               nodes, leafs, players, info_sets, gambit_game, sage_game>>
           ELSE \E sorted_keys \in {SortByName(order) : order \in KeyOrders(keys)},
                   addr \in Addrs :
                    LET acc == check_node_names_and_find_players(generator, sorted_keys, addr)
                    IN  /\ pc' = (IF pc = "new" THEN "built" ELSE "constructed")
                        /\ tree_root' = generator
                        /\ name' = acc.nm
                        /\ players' = SortPlayers(acc.players, acc.nm)
                        /\ nodes' = SortByNameParent(SortByParentActions(sorted_keys, addr),
                                                     acc.nm, addr)
                        /\ leafs' = SortByNameIn(acc.leafs, acc.nm)
                        /\ info_sets' = SortInfoSetsIn(Singletons(sorted_keys), acc.nm)
                        /\ last' = InitCall("none")
                        /\ UNCHANGED <<player, actions, children, parent, node_input, payoffs,
                                       gambit_game, sage_game>>

----------------------------------------------------------------------------
(* Information sets.                                                       *)

\* The node lists a caller passes.
NodeLists == UNION {[1..k -> NodeObjs] : k \in 0..MaxArgs}

\* list.remove(x) when x occurs: the first occurrence goes.
ListRemove(s, x) ==
    LET i == CHOOSE k \in 1..Len(s) : s[k] = x /\ \A j \in 1..(k - 1) : s[j] # x
    IN  SubSeq(s, 1, i - 1) \o SubSeq(s, i + 1, Len(s))

\* "for info_set in L: self.info_sets.remove(info_set)"
RECURSIVE RemoveEach(_, _)
RemoveEach(is, L) ==
    IF L = <<>> THEN is ELSE RemoveEach(ListRemove(is, Head(L)), Tail(L))

\* First loop of set_info_set: every group holding an argument node goes.
RECURSIVE strip(_, _)
strip(is, node_list) ==
    IF node_list = <<>> THEN is
    ELSE strip(RemoveEach(is, SelectSeq(is, LAMBDA g : Contains(g, Head(node_list)))),
               Tail(node_list))

\* Faulty variant of rescan: the loop that re-adds uncovered nodes is missing.
rescan_missing(is, ns, i) == is

\* Second loop of set_info_set: a node of the game in no group becomes a singleton.
RECURSIVE rescan(_, _, _)
rescan(is, ns, i) ==
    IF i > Len(ns) THEN is
    ELSE rescan(IF \E k \in 1..Len(is) : Contains(is[k], ns[i]) THEN is
                ELSE Append(is, <<ns[i]>>),
                ns, i + 1)

\* Faulty variant of set_info_set_raises: the action lists are compared as they are
\* ordered, tuple(node.actions) for tuple(sorted(node.actions)).
set_info_set_raises_ordered(node_list) ==
    IF Cardinality({player[node_list[i]] : i \in 1..Len(node_list)}) # 1
    THEN "inconsistent player"
    ELSE IF Cardinality({actions[node_list[i]] : i \in 1..Len(node_list)}) # 1
    THEN "inconsistent actions"
    ELSE "none"

\* The error the two checks of set_info_set raise, "none" if they pass.
set_info_set_raises(node_list) ==
    IF Cardinality({player[node_list[i]] : i \in 1..Len(node_list)}) # 1
    THEN "inconsistent player"
    ELSE IF Cardinality({SortedLabels(actions[node_list[i]]) : i \in 1..Len(node_list)}) # 1
    THEN "inconsistent actions"
    ELSE "none"

\* Faulty variant of set_info_set_outcome: the checks run after the groups of the
\* argument nodes were taken out.
set_info_set_outcome_late_check(is, node_list) ==
    LET err == set_info_set_raises(node_list)
    IN  IF err # "none" THEN [raised |-> err, info_sets |-> strip(is, node_list)]
        ELSE [raised |-> "none",
              info_sets |-> SortInfoSets(
                  rescan(Append(strip(is, node_list), SortByName(node_list)), nodes, 1))]

\* set_info_set(node_list) on the partition is: the error raised and the
\* info_sets it leaves.
set_info_set_outcome(is, node_list) ==
    LET err == set_info_set_raises(node_list)
    IN  IF err # "none" THEN [raised |-> err, info_sets |-> is]
        ELSE [raised |-> "none",
              info_sets |-> SortInfoSets(
                  rescan(Append(strip(is, node_list), SortByName(node_list)), nodes, 1))]

\* Faulty variant of set_info_set: the actions of the nodes are not compared.
set_info_set_any_actions ==
    /\ pc = "built"
    /\ last = NoCall
    /\ \E node_list \in NodeLists :
        LET err == IF Cardinality({player[node_list[i]] : i \in 1..Len(node_list)}) # 1
                   THEN "inconsistent player" ELSE "none"
            out == IF err # "none" THEN [raised |-> err, info_sets |-> info_sets]
                   ELSE [raised |-> "none",
                         info_sets |-> SortInfoSets(
                             rescan(Append(strip(info_sets, node_list), SortByName(node_list)),
                                    nodes, 1))]
        IN  /\ info_sets' = out.info_sets
            /\ last' = [op |-> "set_info_set", node_list |-> node_list, pre |-> info_sets,
                        raised |-> out.raised, ret |-> FALSE]
    /\ UNCHANGED <<topology, pc, gambit_game, sage_game>>

set_info_set ==
    /\ pc = "built"
    /\ last = NoCall
    /\ \E node_list \in NodeLists :
        LET out == set_info_set_outcome(info_sets, node_list)
        IN  /\ info_sets' = out.info_sets
            /\ last' = [op |-> "set_info_set", node_list |-> node_list, pre |-> info_sets,
                        raised |-> out.raised, ret |-> FALSE]
    /\ UNCHANGED <<topology, pc, gambit_game, sage_game>>

\* Faulty variant of remove_info_set_outcome: the nodes of the group are not put back.
remove_info_set_outcome_no_readd(is, node_list) ==
    IF ~Contains(is, node_list) THEN [raised |-> "not a group", info_sets |-> is]
    ELSE [raised |-> "none", info_sets |-> SortInfoSets(ListRemove(is, node_list))]

\* remove_info_set(node_list) on the partition is.
remove_info_set_outcome(is, node_list) ==
    IF ~Contains(is, node_list) THEN [raised |-> "not a group", info_sets |-> is]
    ELSE [raised |-> "none",
          info_sets |-> SortInfoSets(ListRemove(is, node_list) \o Singletons(node_list))]

\* Faulty variant of remove_info_set: the nodes of the group are taken out of
\* self.nodes as well.
remove_info_set_dropping_nodes ==
    /\ pc = "built"
    /\ last = NoCall
    /\ \E node_list \in NodeLists :
        LET out == remove_info_set_outcome(info_sets, node_list)
        IN  /\ info_sets' = out.info_sets
            /\ nodes' = IF out.raised = "none"
                         THEN SelectSeq(nodes, LAMBDA n : ~Contains(node_list, n))
                         ELSE nodes
            /\ last' = [op |-> "remove_info_set", node_list |-> node_list, pre |-> info_sets,
                        raised |-> out.raised, ret |-> FALSE]
    /\ UNCHANGED <<name, player, actions, children, parent, node_input, payoffs, tree_root,
                   leafs, players, pc, gambit_game, sage_game>>

remove_info_set ==
    /\ pc = "built"
    /\ last = NoCall
    /\ \E node_list \in NodeLists :
        LET out == remove_info_set_outcome(info_sets, node_list)
        IN  /\ info_sets' = out.info_sets
            /\ last' = [op |-> "remove_info_set", node_list |-> node_list, pre |-> info_sets,
                        raised |-> out.raised, ret |-> FALSE]
    /\ UNCHANGED <<topology, pc, gambit_game, sage_game>>

\* perfect_info(): info_sets == sorted([[node] for node in nodes], key=first name).
perfect_info_value(is) == is = SortInfoSets(Singletons(nodes))

perfect_info ==
    /\ pc = "built"
    /\ last = NoCall
    /\ info_sets' = info_sets
    /\ last' = [op |-> "perfect_info", node_list |-> <<>>, pre |-> info_sets,
                raised |-> "none", ret |-> perfect_info_value(info_sets)]
    /\ UNCHANGED <<topology, pc, gambit_game, sage_game>>

----------------------------------------------------------------------------
(* Export: _sage_to_gambit.                                                *)

\* Significant digits Python 2 keeps in str(float): '%.12g'.
StrDigits == 12

\* The digits d plus one unit in the last place: the carry and the digits.
RECURSIVE IncrementDigits(_)
IncrementDigits(d) ==
    IF d = <<>> THEN <<1, <<>>>>
    ELSE IF d[Len(d)] < 9 THEN <<0, [d EXCEPT ![Len(d)] = @ + 1]>>
    ELSE LET r == IncrementDigits(SubSeq(d, 1, Len(d) - 1))
         IN  <<r[1], Append(r[2], 0)>>

RECURSIVE StripZeros(_)
StripZeros(d) ==
    IF d # <<>> /\ d[Len(d)] = 0 THEN StripZeros(SubSeq(d, 1, Len(d) - 1)) ELSE d

\* Fraction(str(x)): exact for an integer; a float is printed rounded to
\* StrDigits significant digits and the fraction is read from the print.
Fraction_of_str(x) ==
    LET keep == StrDigits - (IF x.whole = 0 THEN 0 ELSE 1)
    IN  IF Len(x.frac) <= keep THEN x
        ELSE IF x.frac[keep + 1] < 5
        THEN [whole |-> x.whole, frac |-> StripZeros(SubSeq(x.frac, 1, keep))]
        ELSE LET r == IncrementDigits(SubSeq(x.frac, 1, keep))
             IN  [whole |-> x.whole + r[1], frac |-> StripZeros(r[2])]

\* A node of a Gambit game without a move: its label, its infoset and its
\* outcome (0: none) and the number of its children.  The nodes of a Gambit
\* game are named by their path from the root, the child positions taken.  An
\* infoset is its player, its label, its action labels and its member nodes.
GambitTerminal == [label |-> "", infoset |-> 0, outcome |-> 0, nchildren |-> 0]

\* Game.new_tree(): no players, a root without a move.
new_tree == [players |-> <<>>, infosets |-> <<>>, outcomes |-> <<>>,
             nodes |-> (<<>> :> GambitTerminal)]

\* gambit_game.players[label]: the position of the first player so labelled, 0 if none.
gambit_player_index(g, label) ==
    LET hits == {i \in 1..Len(g.players) : g.players[i] = label}
    IN  IF hits = {} THEN 0 ELSE CHOOSE i \in hits : \A j \in hits : i <= j

\* gambit_node.append_move(player, n), for a node without children and n > 0:
\* a new infoset of n unlabelled actions, and n new terminal children.
append_move(g, path, player_index, n) ==
    [g EXCEPT !.infosets = Append(@, [player |-> player_index, label |-> <<>>,
                                       actions |-> [i \in 1..n |-> ""],
                                       members |-> <<path>>]),
              !.nodes = [q \in {Append(path, i) : i \in 1..n} |-> GambitTerminal]
                        @@ [@ EXCEPT ![path].infoset = Len(g.infosets) + 1,
                                     ![path].nchildren = n]]

\* Faulty variant of attach_move: the node gets a move of its own, a copy of
\* the infoset, where it should join the infoset.
attach_move_as_new(g, path, move) ==
    LET n == Len(g.infosets[move].actions)
    IN  [g EXCEPT !.infosets = Append(@, [g.infosets[move] EXCEPT !.members = <<path>>]),
                  !.nodes = [q \in {Append(path, i) : i \in 1..n} |-> GambitTerminal]
                            @@ [@ EXCEPT ![path].infoset = Len(g.infosets) + 1,
                                         ![path].nchildren = n]]

\* gambit_node.append_move(move), for a node without children: the node joins
\* the infoset and gets one terminal child per action of it.
attach_move(g, path, move) ==
    LET n == Len(g.infosets[move].actions)
    IN  [g EXCEPT !.infosets[move].members = Append(@, path),
                  !.nodes = [q \in {Append(path, i) : i \in 1..n} |-> GambitTerminal]
                            @@ [@ EXCEPT ![path].infoset = move, ![path].nchildren = n]]

\* The conversion stops with the error err.
Raise(st, err) == IF st.raised = "none" THEN [st EXCEPT !.raised = err] ELSE st

\* _sage_to_gambit_get_gambit_child_index: the last position i of the parent
\* with node_input[actions[i]] the child; 0 if there is none and the lookup raises.
sage_to_gambit_get_gambit_child_index(child) ==
    LET sage_node == parent[child]
        hits == IF sage_node = FalseVal \/ node_input[sage_node] = "list" THEN {}
                ELSE {i \in 1..Len(actions[sage_node]) :
                        i <= Len(children[sage_node]) /\ children[sage_node][i] = child}
    IN  IF hits = {} THEN 0 ELSE CHOOSE i \in hits : \A j \in hits : j <= i

\* _sage_to_gambit_set_gambit_move: a new move for the player of sage_node at
\* the Gambit node, its actions labelled by the actions of sage_node.
sage_to_gambit_set_gambit_move(st, sage_node, info_set, path) ==
    LET g == st.g
        pl == gambit_player_index(g, PlayerNameIn(player[sage_node], name))
        n == Len(children[sage_node])
        g1 == append_move(g, path, pl, n)
        move == Len(g1.infosets)
    IN  IF st.raised # "none" THEN st
        ELSE IF pl = 0 THEN Raise(st, "no such player")
        ELSE IF g.nodes[path].nchildren # 0 \/ n = 0 THEN Raise(st, "undefined operation")
        ELSE IF Len(actions[sage_node]) > n THEN Raise(st, "index error")
        ELSE [st EXCEPT !.move = move,
                        !.converted = Append(@, sage_node),
                        !.moves = Append(@, sage_node),
                        !.g = [g1 EXCEPT !.infosets[move].label =
                                              IF sage_node = tree_root THEN <<tree_root>>
                                              ELSE info_set,
                                         !.infosets[move].actions =
                                              [i \in 1..n |-> IF i <= Len(actions[sage_node])
                                                              THEN actions[sage_node][i] ELSE ""]]]

\* _sage_to_gambit_add_gambit_outcomes: one outcome per leaf under sage_node,
\* put at the child found by _sage_to_gambit_get_gambit_child_index.
RECURSIVE sage_to_gambit_add_gambit_outcomes(_, _, _, _)
sage_to_gambit_add_gambit_outcomes(st, sage_node, path, j) ==
    IF st.raised # "none" \/ j > Len(children[sage_node]) THEN st
    ELSE LET child == children[sage_node][j]
             g == st.g
             outcome == Len(g.outcomes) + 1
             leaf_action_index == sage_to_gambit_get_gambit_child_index(child)
         IN  IF ~IsLeaf(child)
             THEN sage_to_gambit_add_gambit_outcomes(st, sage_node, path, j + 1)
             ELSE IF \E i \in 1..Len(players) : players[i] \notin DOMAIN payoffs[child]
             THEN Raise(st, "key error")
             ELSE IF leaf_action_index = 0 THEN Raise(st, "unbound local")
             ELSE IF leaf_action_index > g.nodes[path].nchildren THEN Raise(st, "index error")
             ELSE sage_to_gambit_add_gambit_outcomes(
                    [st EXCEPT !.g.outcomes =
                                    Append(@, [label |-> name[child],
                                               payoffs |-> [i \in 1..Len(players) |->
                                                    Fraction_of_str(payoffs[child][players[i]])]]),
                               !.g.nodes[Append(path, leaf_action_index)].outcome = outcome],
                    sage_node, path, j + 1)

\* _grow_info_set_graph_dictionary: a group with a child of its nodes in another
\* group is a key, and lists those other groups in the order of info_sets.
grow_info_set_graph_dictionary(is) ==
    LET next(g1) == SelectSeq(is, LAMBDA g2 :
                        /\ g2 # g1
                        /\ \E i \in 1..Len(g1) : \E k \in 1..Len(children[g1[i]]) :
                                Contains(g2, children[g1[i]][k]))
    IN  [g1 \in {is[i] : i \in {j \in 1..Len(is) : next(is[j]) # <<>>}} |-> next(g1)]

\* Body of "for node in info_set" in _sage_to_gambit, for the k-th node.
sage_to_gambit_convert_node(st, info_set, k) ==
    LET node == info_set[k]
        child_index == sage_to_gambit_get_gambit_child_index(node)
        gambit_node == Append(st.parent_dict[parent[node]], child_index)
        labelled == [st EXCEPT !.g.nodes[gambit_node].label = name[node]]
        moved == IF node = info_set[1]
                 THEN sage_to_gambit_set_gambit_move(labelled, node, info_set, gambit_node)
                 ELSE IF st.g.nodes[gambit_node].nchildren # 0
                 THEN Raise(st, "undefined operation")
                 ELSE [labelled EXCEPT !.g = attach_move(labelled.g, gambit_node, st.move),
                                       !.converted = Append(@, node)]
        done == sage_to_gambit_add_gambit_outcomes(moved, node, gambit_node, 1)
    IN  IF st.raised # "none" THEN st
        ELSE IF child_index = 0 THEN Raise(st, "unbound local")
        ELSE IF parent[node] \notin DOMAIN st.parent_dict THEN Raise(st, "key error")
        ELSE IF child_index > st.g.nodes[st.parent_dict[parent[node]]].nchildren
        THEN Raise(st, "index error")
        ELSE IF done.raised # "none" THEN done
        ELSE [done EXCEPT !.parent_dict = (node :> gambit_node) @@ @]

RECURSIVE sage_to_gambit_convert_info_set(_, _, _)
sage_to_gambit_convert_info_set(st, info_set, k) ==
    IF k > Len(info_set) THEN st
    ELSE sage_to_gambit_convert_info_set(sage_to_gambit_convert_node(st, info_set, k),
                                         info_set, k + 1)

\* _sage_to_gambit_setup_next_info_sets: the groups listed under info_set are
\* put on _sage_to_gambit_info_set_list.
sage_to_gambit_setup_next_info_sets(st, info_set, d) ==
    IF st.raised = "none" /\ info_set \in DOMAIN d
    THEN [st EXCEPT !.info_set_list = @ \o d[info_set]]
    ELSE st

\* "for info_set in current_info_sets" of _sage_to_gambit.
RECURSIVE sage_to_gambit_convert_layer(_, _, _, _)
sage_to_gambit_convert_layer(st, current_info_sets, i, d) ==
    IF i > Len(current_info_sets) THEN st
    ELSE sage_to_gambit_convert_layer(
            sage_to_gambit_setup_next_info_sets(
                sage_to_gambit_convert_info_set(st, current_info_sets[i], 1),
                current_info_sets[i], d),
            current_info_sets, i + 1, d)

\* list(set(l)): each group once, in the order of the set, which follows the
\* hashes of the tuples; addr stands for the hashes of the node objects.
list_of_set(l, addr) ==
    LET S == {l[i] : i \in 1..Len(l)}
        first == [g \in S |-> CHOOSE i \in 1..Len(l) : l[i] = g /\ \A j \in 1..(i - 1) : l[j] # g]
        once == SelectSeq([i \in 1..Len(l) |-> <<i, l[i]>>], LAMBDA p : first[p[2]] = p[1])
        groups == [i \in 1..Len(once) |-> once[i][2]]
        idx == SortByKey([i \in 1..Len(groups) |-> i],
                         [i \in 1..Len(groups) |->
                            addr[groups[i][1]] * (Cardinality(NodeObjs) + 1) + Len(groups[i])])
    IN  [i \in 1..Len(groups) |-> groups[idx[i]]]

\* The layers the while loop of _sage_to_gambit may take at most in the model.
MaxLayers == Cardinality(NodeObjs) + 1

\* "while len(current_info_sets) != 0" of _sage_to_gambit.
RECURSIVE sage_to_gambit_layers(_, _, _, _, _)
sage_to_gambit_layers(st, current_info_sets, d, addr, fuel) ==
    IF st.raised # "none" \/ current_info_sets = <<>> THEN st
    ELSE IF fuel = 0 THEN Raise(st, "no termination")
    ELSE LET done == sage_to_gambit_convert_layer([st EXCEPT !.info_set_list = <<>>],
                                                  SortInfoSets(current_info_sets), 1, d)
         IN  sage_to_gambit_layers(done, list_of_set(done.info_set_list, addr), d, addr,
                                   fuel - 1)

\* _sage_to_gambit: the error raised and the Gambit game built, with the nodes
\* in the order in which they were given a move (converted) and those among
\* them for which the move was made anew (moves).
sage_to_gambit_value(is, addr) ==
    LET g0 == [new_tree EXCEPT !.players =
                    [i \in 1..Len(players) |-> PlayerNameIn(players[i], name)],
                               !.nodes[<<>>].label = name[tree_root]]
        info_set_dictionary == grow_info_set_graph_dictionary(is)
        st0 == [g |-> g0, parent_dict |-> (tree_root :> <<>>), info_set_list |-> <<>>,
                move |-> 0, raised |-> "none", converted |-> <<>>, moves |-> <<>>]
        st1 == sage_to_gambit_set_gambit_move(st0, tree_root, <<tree_root>>, <<>>)
        st2 == sage_to_gambit_add_gambit_outcomes(st1, tree_root, <<>>, 1)
    IN  IF st2.raised # "none" THEN st2
        ELSE IF <<tree_root>> \notin DOMAIN info_set_dictionary THEN Raise(st2, "key error")
        ELSE sage_to_gambit_layers(st2, info_set_dictionary[<<tree_root>>],
                                   info_set_dictionary, addr, MaxLayers)

sage_to_gambit ==
    /\ pc = "built"
    /\ last = NoCall
    /\ \E addr \in Addrs :
        LET out == sage_to_gambit_value(info_sets, addr)
        IN  /\ gambit_game' = IF out.raised = "none" THEN out.g ELSE NoGambit
            /\ last' = [op |-> "sage_to_gambit", node_list |-> <<>>, pre |-> info_sets,
                        raised |-> out.raised, ret |-> FALSE,
                        converted |-> out.converted, moves |-> out.moves]
    /\ UNCHANGED <<topology, pc, info_sets, sage_game>>

(* Nash equilibria: obtain_nash.                                           *)

\* Faulty variant of obtain_nash_value: the game is exported before the number
\* of players is looked at.
obtain_nash_value_export_first(exported, solved) ==
    IF exported.raised # "none"
    THEN [raised |-> exported.raised, gambit_efg |-> NoGambit, solver |-> FALSE]
    ELSE IF Len(players) > 2
    THEN [raised |-> "not implemented", gambit_efg |-> exported.g, solver |-> FALSE]
    ELSE [raised |-> IF solved THEN "none" ELSE "solver error",
          gambit_efg |-> exported.g, solver |-> TRUE]

\* obtain_nash(): the error raised, the Gambit game made and whether the
\* external solver was run.  exported is what _sage_to_gambit() gives when it
\* is called.  The solver is another program: it returns (solved) or fails.
obtain_nash_value(exported, solved) ==
    IF Len(players) > 2
    THEN [raised |-> "not implemented", gambit_efg |-> NoGambit, solver |-> FALSE]
    ELSE IF exported.raised # "none"
    THEN [raised |-> exported.raised, gambit_efg |-> NoGambit, solver |-> FALSE]
    ELSE [raised |-> IF solved THEN "none" ELSE "solver error",
          gambit_efg |-> exported.g, solver |-> TRUE]

obtain_nash ==
    /\ pc = "built"
    /\ last = NoCall
    /\ \E addr \in Addrs :
        LET exported == sage_to_gambit_value(info_sets, addr)
        IN  \E solved \in BOOLEAN :
                LET out == obtain_nash_value(exported, solved)
                IN  /\ gambit_game' = out.gambit_efg
                    /\ last' = [op |-> "obtain_nash", node_list |-> <<>>, pre |-> info_sets,
                                raised |-> out.raised, ret |-> FALSE, solver |-> out.solver]
    /\ UNCHANGED <<topology, pc, info_sets, sage_game>>

----------------------------------------------------------------------------
(* Import: ExtensiveFormGame(gambit_game), _gambit_to_sage.                *)

\* The number a path reads as, its positions taken as decimal digits.
RECURSIVE PathNumber(_)
PathNumber(q) ==
    IF q = <<>> THEN 0 ELSE PathNumber(SubSeq(q, 1, Len(q) - 1)) * 10 + q[Len(q)]

\* The place of a node in node_indexed_dict: by generation, and within a
\* generation parent after parent in the order of the children.
PathKey(q) == Len(q) * 1000 + PathNumber(q)

\* The paths of S in the order of node_indexed_dict.
RECURSIVE PathList(_)
PathList(S) ==
    IF S = {} THEN <<>>
    ELSE LET q == CHOOSE x \in S : \A y \in S : PathKey(x) <= PathKey(y)
         IN  <<q>> \o PathList(S \ {q})

IndexOf(s, x) == CHOOSE i \in 1..Len(s) : s[i] = x

\* "Action %s" % i
ActionName(i) == <<"Action 1", "Action 2">>[i]

\* The action labels of one infoset after _gambit_to_sage_rename_blank_actions.
RECURSIVE rename_blank(_, _, _)
rename_blank(labels, gambit_action_index, action_string_index) ==
    IF gambit_action_index > Len(labels) THEN labels
    ELSE IF labels[gambit_action_index] = ""
    THEN rename_blank([labels EXCEPT ![gambit_action_index] = ActionName(action_string_index)],
                      gambit_action_index + 1, action_string_index + 1)
    ELSE rename_blank(labels, gambit_action_index + 1, action_string_index)

\* _gambit_to_sage_rename_blank_actions on every node of g: every infoset has
\* a member, so the blank actions of every infoset are renamed.
gambit_to_sage_rename_blank_actions(g) ==
    [g EXCEPT !.infosets = [k \in DOMAIN g.infosets |->
                               [g.infosets[k] EXCEPT !.actions = rename_blank(@, 1, 1)]]]

\* The labels found on the two actions of a move some of whose actions were
\* left unlabeled or were labelled over.
UnlabeledActions == {<<"", "">>, <<"X", "">>, <<"", "Action 1">>}

\* g with a terminal node that has no outcome.
bad_game(g) ==
    {[g EXCEPT !.nodes[q].outcome = 0] : q \in {x \in DOMAIN g.nodes : g.nodes[x].nchildren = 0}}

\* g with unlabeled actions in the move of its root.
unnamed_action_game(g) ==
    LET move_1 == g.nodes[<<>>].infoset
    IN  {[g EXCEPT !.infosets[move_1].actions = labels] :
            labels \in {l \in UnlabeledActions : Len(l) = Len(g.infosets[move_1].actions)}}

\* The nodes of S in the order in which _gambit_to_sage visits them: the
\* deepest generation first, the root last, a generation in the order of
\* node_indexed_dict.
RECURSIVE VisitList(_)
VisitList(S) ==
    IF S = {} THEN <<>>
    ELSE LET q == CHOOSE x \in S : \A y \in S :
                     \/ Len(x) > Len(y)
                     \/ Len(x) = Len(y) /\ PathNumber(x) <= PathNumber(y)
         IN  <<q>> \o VisitList(S \ {q})

\* The place in the visit of the first terminal node without outcome, 0 if
\* every terminal node has one.
gambit_to_sage_no_outcome(g) ==
    LET visit == VisitList(DOMAIN g.nodes)
        bad == {i \in 1..Len(visit) :
                    g.nodes[visit[i]].nchildren = 0 /\ g.nodes[visit[i]].outcome = 0}
    IN  IF bad = {} THEN 0 ELSE CHOOSE i \in bad : \A j \in bad : i <= j

\* _gambit_to_sage_rename_blank_actions on the nodes visited before the one
\* at place stop.
gambit_to_sage_rename_blank_actions_before(g, stop) ==
    LET visit == VisitList(DOMAIN g.nodes)
        seen == {g.nodes[visit[i]].infoset :
                    i \in {j \in 1..(stop - 1) : g.nodes[visit[j]].nchildren # 0}}
    IN  [g EXCEPT !.infosets = [k \in DOMAIN g.infosets |->
                                   IF k \in seen
                                   THEN [g.infosets[k] EXCEPT !.actions = rename_blank(@, 1, 1)]
                                   ELSE g.infosets[k]]]

\* A faulty variant of the error of _gambit_to_sage that takes a terminal
\* node without outcome for a root that is no node.
gambit_to_sage_raised_not_a_node(g) ==
    IF gambit_to_sage_no_outcome(g) # 0 \/ g.nodes[<<>>].nchildren = 0
    THEN "not a node" ELSE "none"

\* The error _gambit_to_sage raises before the converted root is made into a
\* game: a terminal node without outcome, or a root that is terminal.
gambit_to_sage_raised(g) ==
    IF gambit_to_sage_no_outcome(g) # 0 THEN "no outcome"
    ELSE IF g.nodes[<<>>].nchildren = 0 THEN "not a node"
    ELSE "none"

\* The objects that stand for the nodes of g other than the root, in the
\* order of their making, and the objects that stand for its terminal nodes.
NodeIds == <<"a", "b">>

LeafIds == <<"l1", "l2", "l3", "l4", "l5", "l6">>

\* _gambit_to_sage_node_dict: the object made for each node of g.  The root
\* becomes "r".
gambit_to_sage_node_dict(g) ==
    LET inner == PathList({q \in DOMAIN g.nodes : q # <<>> /\ g.nodes[q].nchildren # 0})
        terminal == PathList({q \in DOMAIN g.nodes : q # <<>> /\ g.nodes[q].nchildren = 0})
    IN  [q \in DOMAIN g.nodes |->
            IF q = <<>> THEN "r"
            ELSE IF g.nodes[q].nchildren # 0 THEN NodeIds[IndexOf(inner, q)]
            ELSE LeafIds[IndexOf(terminal, q)]]

\* The keys of {labels[i]: ... for i in range(len(labels))} in the order of
\* their first insertion.
dict_keys(labels) ==
    LET first == {i \in 1..Len(labels) : \A j \in 1..(i - 1) : labels[j] # labels[i]}
    IN  [k \in 1..Cardinality(first) |->
            labels[CHOOSE i \in first : Cardinality({j \in first : j < i}) = k - 1]]

\* The value of that dictionary at key: the last one inserted under it.
dict_value(labels, values, key) ==
    values[CHOOSE i \in 1..Len(labels) :
              labels[i] = key /\ \A j \in (i + 1)..Len(labels) : labels[j] # key]

\* The orders in which a Python 2 dictionary may list its keys: one order
\* for each sequence of keys inserted, the same whenever that sequence is
\* inserted again.
DictOrders(g) ==
    LET inserted == {dict_keys(g.infosets[k].actions) : k \in DOMAIN g.infosets}
    IN  {f \in [inserted -> UNION {KeyOrders(1..Len(D)) : D \in inserted}] :
            \A D \in inserted : Len(f[D]) = Len(D)}

\* The EFG_Player objects in the order in which they stand for the players
\* of a Gambit game.
PlayerIds == <<"P1", "P2", "P3", "Q1">>

\* _gambit_to_sage_player_dict: the EFG_Player made for each player of g, an
\* object of its own for every player, named by the player's label.
gambit_to_sage_player_dict(g) ==
    [j \in 1..Len(g.players) |->
        LET named == SelectSeq(PlayerIds, LAMBDA p : PlayerName[p] = g.players[j])
            k == Cardinality({i \in 1..j : g.players[i] = g.players[j]})
        IN  IF k <= Len(named) THEN named[k] ELSE FalseVal]

\* _gambit_to_sage_create_node_or_leaf on every node of g, the deepest first,
\* then _gambit_to_sage_check_node_names_for_renaming: the EFG_Leaf and
\* EFG_Node objects made.  A node is made of the dictionary from the labels
\* of its infoset's actions to the objects of its children, which sets their
\* parent; a blank label of a Gambit node leaves the name False.
gambit_to_sage_create_node_or_leaf(g, node_dict, dict_order) ==
    LET made == {node_dict[q] : q \in DOMAIN g.nodes}
        gambit_node(o) == CHOOSE q \in DOMAIN g.nodes : node_dict[q] = o
        player_dict == gambit_to_sage_player_dict(g)
        labels(q) == [i \in 1..g.nodes[q].nchildren |->
                         g.infosets[g.nodes[q].infoset].actions[i]]
        kids(q) == [i \in 1..g.nodes[q].nchildren |-> node_dict[Append(q, i)]]
        keys(q) == LET D == dict_keys(labels(q))
                   IN  [k \in 1..Len(D) |-> D[dict_order[D][k]]]
        values(q) == [k \in 1..Len(keys(q)) |-> dict_value(labels(q), kids(q), keys(q)[k])]
        made_children == [n \in NodeObjs |->
                            IF n \in made THEN values(gambit_node(n)) ELSE <<>>]
    IN  [actions |-> [n \in NodeObjs |-> IF n \in made THEN keys(gambit_node(n)) ELSE <<>>],
         children |-> made_children,
         player |-> [n \in NodeObjs |->
                        IF n \in made
                        THEN player_dict[g.infosets[g.nodes[gambit_node(n)].infoset].player]
                        ELSE FalseVal],
         node_input |-> [n \in NodeObjs |-> "dict"],
         name |-> [o \in Objs |->
                      IF o \in made /\ g.nodes[gambit_node(o)].label # ""
                      THEN g.nodes[gambit_node(o)].label ELSE FalseVal],
         parent |-> [o \in Objs |->
                        IF \E n \in NodeObjs : Contains(made_children[n], o)
                        THEN CHOOSE n \in NodeObjs : Contains(made_children[n], o)
                        ELSE FalseVal],
         payoffs |-> [l \in LeafObjs |->
                         IF l \in made
                         THEN LET outcome == g.outcomes[g.nodes[gambit_node(l)].outcome]
                              IN  [p \in {player_dict[j] : j \in 1..Len(outcome.payoffs)} |->
                                      outcome.payoffs[CHOOSE j \in 1..Len(outcome.payoffs) :
                                                         player_dict[j] = p]]
                         ELSE <<>>]]

ImportCall(err) ==
    [op |-> "gambit_to_sage", node_list |-> <<>>, pre |-> <<>>, raised |-> err, ret |-> FALSE]

\* The record of a _gambit_to_sage that has not come to the game of the
\* converted root yet, with the Gambit game as it was passed.
ConvertCall(err, passed) ==
    [op |-> "gambit_to_sage", node_list |-> <<>>, pre |-> <<>>, raised |-> err, ret |-> FALSE,
     passed |-> passed]

\* _gambit_to_sage up to the converted root: the players, the nodes by
\* generation, the objects made from the deepest generation upwards.  The
\* game passed is the one the export has just returned, as it is or after
\* the caller took the outcome from a terminal node or labelled the actions
\* of a move anew; sage_game is kept for the game passed as it was.  A
\* constructor that raises leaves a game with nodes = [] and nothing else;
\* the actions of the nodes visited until then stay renamed.
gambit_to_sage_convert ==
    /\ pc = "built"
    /\ last.op = "sage_to_gambit" /\ last.raised = "none"
    /\ \E passed \in {gambit_game} \cup bad_game(gambit_game)
                                    \cup unnamed_action_game(gambit_game) :
       LET g == gambit_to_sage_rename_blank_actions(passed)
           node_dict == gambit_to_sage_node_dict(g)
           raised == gambit_to_sage_raised(passed)
       IN  IF raised # "none"
           THEN /\ pc' = "failed"
                /\ last' = ConvertCall(raised, passed)
                /\ gambit_game' = gambit_to_sage_rename_blank_actions_before(
                                      passed,
                                      IF gambit_to_sage_no_outcome(passed) # 0
                                      THEN gambit_to_sage_no_outcome(passed)
                                      ELSE Cardinality(DOMAIN passed.nodes) + 1)
                /\ tree_root' = FalseVal
                /\ nodes' = <<>>
                /\ leafs' = <<>>
                /\ players' = <<>>
                /\ info_sets' = <<>>
                /\ sage_game' = NoSage
                /\ UNCHANGED <<name, player, actions, children, parent, node_input, payoffs>>
           ELSE \E dict_order \in DictOrders(g) :
                    LET made == gambit_to_sage_create_node_or_leaf(g, node_dict, dict_order)
                    IN  /\ pc' = "converted"
                        /\ sage_game' = IF passed = gambit_game
                                        THEN [actions |-> actions, children |-> children,
                                              payoffs |-> payoffs, players |-> players,
                                              info_sets |-> info_sets]
                                        ELSE NoSage
                        /\ gambit_game' = g
                        /\ actions' = made.actions
                        /\ children' = made.children
                        /\ player' = made.player
                        /\ node_input' = made.node_input
                        /\ name' = made.name
                        /\ parent' = made.parent
                        /\ payoffs' = made.payoffs
                        /\ tree_root' = FalseVal
                        /\ nodes' = <<>>
                        /\ leafs' = <<>>
                        /\ players' = <<>>
                        /\ info_sets' = <<>>
                        /\ last' = ConvertCall("none", passed)

\* A number is below another.
NumLt(x, y) ==
    LET digit(z, i) == IF i <= Len(z.frac) THEN z.frac[i] ELSE 0
        n == IF Len(x.frac) < Len(y.frac) THEN Len(y.frac) ELSE Len(x.frac)
    IN  \/ x.whole < y.whole
        \/ /\ x.whole = y.whole
           /\ \E i \in 1..n : /\ digit(x, i) < digit(y, i)
                              /\ \A j \in 1..(i - 1) : digit(x, j) = digit(y, j)

\* leafs.sort(key=lambda x: x.payoffs[self.players[0]]): stable.
SortByPayoff(s, p) ==
    LET S == {s[i] : i \in 1..Len(s)}
    IN  SortByKey(s, [x \in S |->
                        Cardinality({payoffs[y][p] : y \in {z \in S :
                                        NumLt(payoffs[z][p], payoffs[x][p])}})])

\* gambit_game.infosets: the infosets player after player, those of a player
\* in the order of their making.
gambit_infosets(g) ==
    SortByKey([k \in 1..Len(g.infosets) |-> k], [k \in 1..Len(g.infosets) |-> g.infosets[k].player])

\* _gambit_to_sage_setup_info_sets from the k-th infoset on: set_info_set of
\* the objects of its members, on the partition is of the constructed game.
RECURSIVE gambit_to_sage_setup_info_sets(_, _, _, _)
gambit_to_sage_setup_info_sets(g, node_dict, is, k) ==
    IF k > Len(g.infosets) THEN [raised |-> "none", info_sets |-> is]
    ELSE LET info_set == g.infosets[gambit_infosets(g)[k]]
             info_set_list == [m \in 1..Len(info_set.members) |-> node_dict[info_set.members[m]]]
             out == set_info_set_outcome(is, info_set_list)
         IN  IF out.raised # "none" THEN out
             ELSE gambit_to_sage_setup_info_sets(g, node_dict, out.info_sets, k + 1)

\* The rest of _gambit_to_sage once the game of the converted root is
\* constructed: _gambit_to_sage_setup_info_sets, then
\* _gambit_to_sage_setup_attributes with its four sorts.
gambit_to_sage_setup ==
    /\ pc = "constructed"
    /\ LET node_dict == gambit_to_sage_node_dict(gambit_game)
           out == gambit_to_sage_setup_info_sets(gambit_game, node_dict, info_sets, 1)
           walk == grow_walk(<<tree_root>>, <<>>)
           keys == tree_dictionary_keys(tree_root, walk.checked)
       IN  IF out.raised # "none"
           THEN /\ pc' = "failed"
                /\ info_sets' = out.info_sets
                /\ last' = ImportCall(out.raised)
                /\ UNCHANGED <<topology, gambit_game, sage_game>>
           ELSE /\ pc' = "imported"
                /\ players' = SortPlayers(players, name)
                /\ leafs' = SortByPayoff(leafs, SortPlayers(players, name)[1])
                /\ info_sets' = SortInfoSets(out.info_sets)
                /\ nodes' \in {SortByNameParent(SortByName(order), name, addr) :
                                  order \in KeyOrders(keys), addr \in Addrs}
                /\ last' = ImportCall("none")
                /\ UNCHANGED <<name, player, actions, children, parent, node_input, payoffs,
                               tree_root, gambit_game, sage_game>>

\* The caller has seen the outcome of the call and goes on; the record of the
\* call is dropped.  Nothing of the game changes.
Resume ==
    /\ last # NoCall
    /\ pc \notin {"converted", "constructed"}
    /\ last' = NoCall
    /\ gambit_game' = NoGambit
    /\ sage_game' = NoSage
    /\ UNCHANGED <<topology, pc, info_sets>>

Next ==
    \/ ExtensiveFormGame \/ set_info_set \/ remove_info_set \/ perfect_info
    \/ sage_to_gambit \/ obtain_nash
    \/ gambit_to_sage_convert \/ gambit_to_sage_setup
    \/ Resume

Spec == Init /\ [][Next]_vars

TypeOK == pc \in {"new", "walking", "built", "failed", "converted", "constructed", "imported"}

----------------------------------------------------------------------------
(* Vocabulary of the properties.                                           *)

Range(s) == {s[i] : i \in 1..Len(s)}

Count(s, x) == Cardinality({i \in 1..Len(s) : s[i] = x})

\* The same elements, each as often, in any order.
SameMembers(s, t) ==
    /\ Len(s) = Len(t)
    /\ \A x \in Range(s) \cup Range(t) : Count(s, x) = Count(t, x)

\* How often the node n occurs in the groups of is.
Occurrences(is, n) ==
    Cardinality({p \in UNION {{<<i, j>> : j \in 1..Len(is[i])} : i \in 1..Len(is)} :
                    is[p[1]][p[2]] = n})

Meets(g, S) == Range(g) \cap Range(S) # {}

OrderedByName(g) == \A i, j \in 1..Len(g) : i < j => NameRank[name[g[i]]] <= NameRank[name[g[j]]]

Succeeded(op) == last.op = op /\ last.raised = "none"

Failed(op) == last.op = op /\ last.raised # "none"

----------------------------------------------------------------------------
(* C1 *)

\* C1: in every state of a constructed game, whatever set_info_set and
\* remove_info_set calls were made, info_sets is an exact partition of nodes:
\* every node of the game occurs exactly once in the groups and the groups hold
\* nothing but nodes of the game.
C1_ExactPartition ==
    pc = "built" =>
        /\ \A n \in Range(nodes) : Occurrences(info_sets, n) = 1
        /\ \A i \in 1..Len(info_sets) : Range(info_sets[i]) \subseteq Range(nodes)

----------------------------------------------------------------------------
(* C2 *)

\* C2: after a successful set_info_set(S) there is exactly one group meeting S,
\* and it holds the nodes of S ordered by name; every group that held no node of
\* S before the call is still there; every node of the game outside S that
\* shared a group with a node of S is now a singleton group; and info_sets
\* holds no other group.
C2_SetInfoSetResult ==
    Succeeded("set_info_set") =>
        LET S == last.node_list
            hit == {i \in 1..Len(info_sets) : Meets(info_sets[i], S)}
            split == {n \in Range(nodes) \ Range(S) :
                        \E i \in 1..Len(last.pre) :
                            n \in Range(last.pre[i]) /\ Meets(last.pre[i], S)}
        IN  /\ Cardinality(hit) = 1
            /\ \A i \in hit : SameMembers(info_sets[i], S) /\ OrderedByName(info_sets[i])
            /\ \A i \in 1..Len(last.pre) :
                    ~Meets(last.pre[i], S) => Count(info_sets, last.pre[i]) = Count(last.pre, last.pre[i])
            /\ \A n \in split : Contains(info_sets, <<n>>)
            /\ \A i \in 1..Len(info_sets) :
                    \/ i \in hit
                    \/ Contains(last.pre, info_sets[i]) /\ ~Meets(info_sets[i], S)
                    \/ \E n \in split : info_sets[i] = <<n>>

\* A successful set_info_set(S) that takes a node out of a group it shared
\* with a node left outside S, in a game with a third group.
C2_Witness ==
    /\ Succeeded("set_info_set")
    /\ \E i \in 1..Len(last.pre) :
            /\ Meets(last.pre[i], last.node_list)
            /\ ~(Range(last.pre[i]) \subseteq Range(last.node_list))
    /\ Len(info_sets) = 3

----------------------------------------------------------------------------
(* C3 *)

\* C3: set_info_set(S) with S not empty is accepted exactly when all nodes of S
\* have the same player and the same set of action labels, whatever the order
\* of the labels; it raises the inconsistent-player error when the players
\* differ, and the inconsistent-actions error when only the action sets differ.
C3_Acceptance ==
    (last.op = "set_info_set" /\ last.node_list # <<>>) =>
        LET S == last.node_list
            samePlayer == \A i, j \in 1..Len(S) : player[S[i]] = player[S[j]]
            sameActions == \A i, j \in 1..Len(S) :
                                Range(actions[S[i]]) = Range(actions[S[j]])
        IN  /\ last.raised = "none" <=> (samePlayer /\ sameActions)
            /\ ~samePlayer => last.raised = "inconsistent player"
            /\ (samePlayer /\ ~sameActions) => last.raised = "inconsistent actions"

\* An accepted set_info_set of two nodes that list the same labels in
\* different orders.
C3_Witness ==
    /\ Succeeded("set_info_set")
    /\ \E i, j \in 1..Len(last.node_list) :
            /\ actions[last.node_list[i]] # actions[last.node_list[j]]
            /\ Range(actions[last.node_list[i]]) = Range(actions[last.node_list[j]])

----------------------------------------------------------------------------
(* C4 *)

\* C4: a set_info_set or remove_info_set call that raises leaves info_sets as
\* it was before the call, in content and in order.
C4_AllOrNothing ==
    (Failed("set_info_set") \/ Failed("remove_info_set")) => info_sets = last.pre

\* A set_info_set that raised although one of its nodes sat in a group of two,
\* which a call that had begun to work would have taken apart.
C4_Witness ==
    /\ Failed("set_info_set")
    /\ \E i \in 1..Len(last.pre) :
            Len(last.pre[i]) = 2 /\ Meets(last.pre[i], last.node_list)

----------------------------------------------------------------------------
(* C5 *)

\* C5 as stated: after a successful remove_info_set(G), G is no longer a group,
\* every node of G is a singleton group, and every other group is still there.
C5_RemoveResult ==
    Succeeded("remove_info_set") =>
        LET G == last.node_list
        IN  /\ ~Contains(info_sets, G)
            /\ \A n \in Range(G) : Contains(info_sets, <<n>>)
            /\ \A i \in 1..Len(last.pre) : last.pre[i] # G => Contains(info_sets, last.pre[i])

\* C5 amended: after a successful remove_info_set(G), every node of G is a
\* singleton group, every other group is still there, and G is no longer a
\* group if it had more than one member (a singleton G is put back as it was).
C5_RemoveResultAmended ==
    Succeeded("remove_info_set") =>
        LET G == last.node_list
        IN  /\ Len(G) > 1 => ~Contains(info_sets, G)
            /\ \A n \in Range(G) : Contains(info_sets, <<n>>)
            /\ \A i \in 1..Len(last.pre) : last.pre[i] # G => Contains(info_sets, last.pre[i])
            /\ Len(info_sets) = Len(last.pre) - 1 + Len(G)

\* A successful remove_info_set of a group of two different nodes.
C5_Witness ==
    /\ Succeeded("remove_info_set")
    /\ Len(last.node_list) = 2
    /\ last.node_list[1] # last.node_list[2]

----------------------------------------------------------------------------
(* C6 *)

\* C6: remove_info_set(node_list) succeeds exactly when the nodes given are the
\* members of one current group, in whatever order they are listed, and
\* otherwise raises the not-a-group error.
C6_RemoveAnyOrder ==
    last.op = "remove_info_set" =>
        /\ last.raised = "none" <=>
                \E i \in 1..Len(last.pre) : SameMembers(last.pre[i], last.node_list)
        /\ last.raised \in {"none", "not a group"}

----------------------------------------------------------------------------
(* C7 *)

\* C7: perfect_info() returns True exactly when every group of info_sets is a
\* singleton, and leaves info_sets unchanged.
C7_PerfectInfo ==
    last.op = "perfect_info" =>
        /\ last.ret <=> \A i \in 1..Len(info_sets) : Len(info_sets[i]) = 1
        /\ info_sets = last.pre

----------------------------------------------------------------------------
(* C8 *)

\* C8: set_info_set(G), called when the nodes of G are exactly one current
\* group (G lists each of them once and no other group holds any of them),
\* leaves info_sets unchanged.
C8_Idempotent ==
    ( /\ Succeeded("set_info_set")
      /\ \A n \in Range(last.node_list) : Count(last.node_list, n) = 1
      /\ \E i \in 1..Len(last.pre) :
            /\ SameMembers(last.pre[i], last.node_list)
            /\ \A j \in 1..Len(last.pre) : j # i => ~Meets(last.pre[j], last.node_list) )
    => info_sets = last.pre

----------------------------------------------------------------------------
(* C9 *)

\* C9: right after a successful construction info_sets is one singleton group
\* per node, in the order of nodes, and perfect_info() is True; a tree of one
\* decision node has nodes = [r] and info_sets = [[r]].
C9_AfterConstruction ==
    Succeeded("init") =>
        /\ info_sets = Singletons(nodes)
        /\ perfect_info_value(info_sets)
        /\ (\A i \in 1..Len(children[tree_root]) : IsLeaf(children[tree_root][i]))
                => nodes = <<tree_root>> /\ info_sets = <<<<tree_root>>>>

----------------------------------------------------------------------------
(* C10 *)

\* C10: once the game is constructed no call changes the topology: tree_root,
\* nodes, leafs, players and the name, player, actions, children and parent of
\* every object stay as they are; only info_sets may change.  Reading a Gambit
\* game makes another game of other objects and is no call on this one: it
\* takes pc away from "built".
C10_TopologyFrozen == [][pc = "built" /\ pc' = "built" => topology' = topology]_vars

\* A set_info_set that succeeded and changed info_sets.
C10_Witness == Succeeded("set_info_set") /\ info_sets # last.pre /\ Len(info_sets) = 2

----------------------------------------------------------------------------
(* Vocabulary of the construction properties.                              *)

\* The nodes reachable from the root over children, the root included.
Reachable == Descendants(children, {"r"})

\* Some node or leaf is a child of two different nodes reachable from the root.
SharedChild ==
    \E o \in Objs : \E p, q \in Reachable :
        p # q /\ Contains(children[p], o) /\ Contains(children[q], o)

\* The root has actions, children and a player, and every other reachable node
\* is complete and carries an EFG_Player: the traversal raises nothing.
WalkClean ==
    /\ actions["r"] # <<>> /\ children["r"] # <<>> /\ player["r"] # FalseVal
    /\ \A n \in Reachable \ {"r"} : is_complete(n) /\ player[n] \in PlayerObjs

\* The failed construction left no attribute of a game behind.
NoGame == pc = "failed" /\ nodes = <<>> /\ leafs = <<>> /\ players = <<>> /\ info_sets = <<>>

----------------------------------------------------------------------------
(* C11 *)

----------------------------------------------------------------------------
(* C12 *)

\* C12: construction fails and produces no game if the root has no actions, no
\* children or no player, or if some other reachable node is incomplete
\* (parent, actions, children or player not set).
C12_Incomplete ==
    ( /\ last.op = "init"
      /\ \/ actions["r"] = <<>> \/ children["r"] = <<>> \/ player["r"] = FalseVal
         \/ \E n \in Reachable \ {"r"} : ~is_complete(n) )
    => (NoGame /\ last.raised # "none")

----------------------------------------------------------------------------
(* C13 *)

\* C13: after a successful construction every node of nodes, the root included,
\* has an EFG_Player as player; and a graph in which a reachable decision node
\* carries a value as player that is neither unset nor an EFG_Player is rejected
\* with the invalid-player error.
C13_GenuinePlayers ==
    /\ Succeeded("init") => \A n \in Range(nodes) : player[n] \in PlayerObjs
    /\ (last.op = "init" /\ \E n \in Reachable : player[n] \notin PlayerObjs \cup {FalseVal})
            => last.raised = "invalid player"

----------------------------------------------------------------------------
(* C14 *)

\* C14: after a successful construction every node and every leaf of the game
\* has a name, the unnamed root is called 'Tree Root', no two nodes have the
\* same name and no two leaves have the same name.
C14_UniqueNames ==
    Succeeded("init") =>
        /\ \A n \in Range(nodes) \cup Range(leafs) : name[n] # FalseVal
        /\ name[tree_root] = "Tree Root"
        /\ \A m, n \in Range(nodes) : m # n => name[m] # name[n]
        /\ \A k, l \in Range(leafs) : k # l => name[k] # name[l]

----------------------------------------------------------------------------
(* Vocabulary of the export properties.                                    *)

\* The place of the object o in the tree of the game: the child positions
\* taken from the root to reach it.
RECURSIVE SagePath(_)
SagePath(o) ==
    IF o = tree_root THEN <<>>
    ELSE Append(SagePath(parent[o]),
                CHOOSE i \in 1..Len(children[parent[o]]) : children[parent[o]][i] = o)

\* The nodes m and n share a group of the partition is.
SameGroup(is, m, n) == \E i \in 1..Len(is) : Contains(is[i], m) /\ Contains(is[i], n)

\* The nodes of the Gambit game g that have a move.
DecisionEntries(g) == {q \in DOMAIN g.nodes : g.nodes[q].infoset # 0}

----------------------------------------------------------------------------
(* C15 *)

\* C15: _sage_to_gambit returns a Gambit game without raising, for every
\* constructed game and every partition set_info_set and remove_info_set reach.
C15_ExportCompletes == last.op = "sage_to_gambit" => last.raised = "none"

----------------------------------------------------------------------------
(* C16 *)

\* C16: the exported game has exactly one node with a move per node of the
\* game, at the node's place in the tree, and two nodes of the game are in the
\* same Gambit infoset exactly when they are in the same group of info_sets.
C16_InfosetsMatchGroups ==
    Succeeded("sage_to_gambit") =>
        /\ DecisionEntries(gambit_game) = {SagePath(n) : n \in Range(nodes)}
        /\ Cardinality(DecisionEntries(gambit_game)) = Len(nodes)
        /\ \A m, n \in Range(nodes) :
                (gambit_game.nodes[SagePath(m)].infoset = gambit_game.nodes[SagePath(n)].infoset)
                    <=> SameGroup(info_sets, m, n)

\* An export that succeeded with two nodes in one group next to the root's.
C16_Witness ==
    /\ Succeeded("sage_to_gambit")
    /\ Len(nodes) = 3
    /\ \E i \in 1..Len(info_sets) : Len(info_sets[i]) = 2

----------------------------------------------------------------------------
(* C17 *)

\* C17: in the exported game, for every node n of the game and every position
\* i, the action at position i of n's move is labelled actions[n][i], and the
\* child at position i stands for children[n][i], the child n.actions[i] leads
\* to: it carries the name of that node, or the outcome named after that leaf.
C17_LabelsPerNode ==
    Succeeded("sage_to_gambit") =>
        \A n \in Range(nodes) :
            LET q == SagePath(n)
                move == gambit_game.infosets[gambit_game.nodes[q].infoset]
            IN  /\ gambit_game.nodes[q].nchildren = Len(actions[n])
                /\ \A i \in 1..Len(actions[n]) :
                    LET c == children[n][i]
                        gc == gambit_game.nodes[Append(q, i)]
                    IN  /\ move.actions[i] = actions[n][i]
                        /\ IF IsLeaf(c)
                           THEN gc.outcome # 0 /\ gambit_game.outcomes[gc.outcome].label = name[c]
                           ELSE gc.label = name[c]

----------------------------------------------------------------------------
(* C18 *)

\* C18: the exported game has one player per player of the game, in the order
\* of players, and one outcome per leaf, at the place of the leaf, whose entry
\* for the j-th player is the leaf's payoff for players[j].
C18_PlayersAndOutcomes ==
    Succeeded("sage_to_gambit") =>
        /\ gambit_game.players = [j \in 1..Len(players) |-> PlayerNameIn(players[j], name)]
        /\ Len(gambit_game.outcomes) = Len(leafs)
        /\ \A l \in Range(leafs) :
            LET gl == gambit_game.nodes[SagePath(l)]
            IN  /\ gl.outcome # 0
                /\ \A k \in Range(leafs) \ {l} :
                        gambit_game.nodes[SagePath(k)].outcome # gl.outcome
                /\ gambit_game.outcomes[gl.outcome].payoffs =
                        [j \in 1..Len(players) |-> payoffs[l][players[j]]]

----------------------------------------------------------------------------
(* Vocabulary of the import properties.                                    *)

\* The sequences of action labels a play can take.
LabelPaths ==
    UNION {[1..k -> {LabelOrder[i] : i \in 1..Len(LabelOrder)}] : k \in 0..Cardinality(NodeObjs)}

\* The object the play labs leads to from the object o in the tree with the
\* action lists act and the child lists ch; "none" if the play leaves the tree.
RECURSIVE Along(_, _, _, _)
Along(act, ch, o, labs) ==
    IF labs = <<>> THEN o
    ELSE IF o \notin NodeObjs \/ ~Contains(act[o], labs[1]) THEN "none"
    ELSE Along(act, ch, ch[o][IndexOf(act[o], labs[1])], Tail(labs))

\* The object of the exported game, and of the game read back, at the end of a play.
Exported(labs) == Along(sage_game.actions, sage_game.children, "r", labs)

Imported(labs) == Along(actions, children, "r", labs)

\* The reading of the Gambit game has completed.
ImportDone == pc = "imported" /\ last.op = "gambit_to_sage" /\ last.raised = "none"

(* C19 *)

\* C19: a game that was exported and read back is isomorphic to the exported
\* one: the players have the same names, every play ends in both games at a
\* node with the same set of actions or at a leaf with the same payoff vector,
\* and two nodes share an information set in one game iff the nodes at the
\* end of the same plays share one in the other.
C19_RoundTrip ==
    (ImportDone /\ sage_game # NoSage) =>
        /\ [i \in 1..Len(players) |-> PlayerNameIn(players[i], name)]
             = [i \in 1..Len(sage_game.players) |-> PlayerName[sage_game.players[i]]]
        /\ \A labs \in LabelPaths :
              /\ Exported(labs) = "none" <=> Imported(labs) = "none"
              /\ Exported(labs) \in NodeObjs =>
                    /\ Imported(labs) \in NodeObjs
                    /\ Range(actions[Imported(labs)]) = Range(sage_game.actions[Exported(labs)])
              /\ Exported(labs) \in LeafObjs =>
                    /\ Imported(labs) \in LeafObjs
                    /\ [i \in 1..Len(players) |-> payoffs[Imported(labs)][players[i]]]
                         = [i \in 1..Len(sage_game.players) |->
                               sage_game.payoffs[Exported(labs)][sage_game.players[i]]]
        /\ \A l1, l2 \in LabelPaths :
              Exported(l1) \in NodeObjs /\ Exported(l2) \in NodeObjs
              /\ Imported(l1) \in NodeObjs /\ Imported(l2) \in NodeObjs =>
                  (SameGroup(sage_game.info_sets, Exported(l1), Exported(l2))
                    <=> SameGroup(info_sets, Imported(l1), Imported(l2)))

(* C20 *)

\* C20: once a Gambit game is read, the nodes made for two of its decision
\* nodes share an information set iff the two decision nodes are members of
\* one Gambit infoset, and info_sets is an exact partition of nodes: no group
\* is empty, every member of a group is a node of the game, and every node
\* of the game is in one group, once.
C20_ImportedInfoSets ==
    ImportDone =>
        LET node_dict == gambit_to_sage_node_dict(gambit_game)
        IN  /\ \A q1, q2 \in DecisionEntries(gambit_game) :
                  SameGroup(info_sets, node_dict[q1], node_dict[q2])
                    <=> gambit_game.nodes[q1].infoset = gambit_game.nodes[q2].infoset
            /\ Range(nodes) = {node_dict[q] : q \in DecisionEntries(gambit_game)}
            /\ \A i \in 1..Len(info_sets) :
                  info_sets[i] # <<>> /\ Range(info_sets[i]) \subseteq Range(nodes)
            /\ \A n \in Range(nodes) : Occurrences(info_sets, n) = 1

----------------------------------------------------------------------------
(* C23 *)

----------------------------------------------------------------------------
(* C24 *)

\* C24: EFG_Player objects of one name are one player: no name occurs twice
\* in the players of a constructed game, and set_info_set does not raise the
\* inconsistent-player error for nodes whose players all carry one name.
C24_PlayersByName ==
    /\ pc = "built" =>
          \A i, j \in 1..Len(players) :
              PlayerNameIn(players[i], name) = PlayerNameIn(players[j], name) => i = j
    /\ ( /\ last.op = "set_info_set"
         /\ last.node_list # <<>>
         /\ \A m, n \in Range(last.node_list) :
               PlayerNameIn(player[m], name) = PlayerNameIn(player[n], name) )
       => last.raised # "inconsistent player"

----------------------------------------------------------------------------
(* C30 *)

\* C30: the players of a constructed game hold every EFG_Player that is a key
\* of the payoffs of a leaf of the game, each once and in the order of their
\* names, and an exported outcome carries one payoff for every key of the
\* payoffs of its leaf.
C30_PlayersOfPayoffs ==
    /\ pc = "built" =>
          /\ \A l \in Range(leafs) : DOMAIN payoffs[l] \subseteq Range(players)
          /\ \A i, j \in 1..Len(players) :
                /\ players[i] = players[j] => i = j
                /\ i < j => NameRank[PlayerNameIn(players[i], name)]
                              <= NameRank[PlayerNameIn(players[j], name)]
    /\ Succeeded("sage_to_gambit") =>
          \A l \in Range(leafs) :
              \E q \in DOMAIN gambit_game.nodes :
                  /\ q = SagePath(l)
                  /\ gambit_game.nodes[q].outcome # 0
                  /\ Len(gambit_game.outcomes[gambit_game.nodes[q].outcome].payoffs)
                       = Cardinality(DOMAIN payoffs[l])

----------------------------------------------------------------------------
(* C27 *)

\* C27: in every state of a constructed game, whatever set_info_set and
\* remove_info_set calls were made, the nodes of a group have one player and
\* one set of action labels.
C27_Homogeneous ==
    pc = "built" =>
        \A i \in 1..Len(info_sets) : \A m, n \in Range(info_sets[i]) :
            /\ player[m] = player[n]
            /\ Range(actions[m]) = Range(actions[n])

\* Two different nodes are in one group after a set_info_set.
C27_Witness ==
    /\ Succeeded("set_info_set")
    /\ \E i \in 1..Len(info_sets) : Cardinality(Range(info_sets[i])) = 2

----------------------------------------------------------------------------
(* C26 *)

\* C26: in a constructed game, for every list S of nodes that are singleton
\* groups, a set_info_set(S) that succeeds followed by remove_info_set of the
\* group it made succeeds and leaves info_sets as it was before the two calls.
C26_SetThenRemove ==
    pc = "built" =>
        \A S \in NodeLists :
            LET made == set_info_set_outcome(info_sets, S)
                undone == remove_info_set_outcome(made.info_sets, SortByName(S))
            IN  ((\A i \in 1..Len(S) : Contains(info_sets, <<S[i]>>)) /\ made.raised = "none")
                    => undone = [raised |-> "none", info_sets |-> info_sets]

----------------------------------------------------------------------------
(* C25 *)

\* C25: for the info_sets of a constructed game, whatever set_info_set and
\* remove_info_set calls were made, _grow_info_set_graph_dictionary lists the
\* group B under the group A, for any two groups A and B including A = B,
\* iff some node of A has a child in B, and lists no group twice.
C25_InfoSetGraph ==
    pc = "built" =>
        LET d == grow_info_set_graph_dictionary(info_sets)
        IN  /\ \A A, B \in Range(info_sets) :
                  (A \in DOMAIN d /\ Contains(d[A], B))
                    <=> \E n \in Range(A) : \E c \in Range(children[n]) : Contains(B, c)
            /\ \A A \in DOMAIN d : \A B \in Range(d[A]) : Count(d[A], B) = 1

----------------------------------------------------------------------------
(* C28 *)

\* C28: in an export, whatever the partition, every node of the game is given
\* its move once, a node other than the root after its parent, and for every
\* group the move is made anew for one of its nodes, once.
C28_ConvertedOnce ==
    last.op = "sage_to_gambit" =>
        /\ \A n \in Range(nodes) : Count(last.converted, n) = 1
        /\ \A i \in 1..Len(last.converted) :
              last.converted[i] # tree_root =>
                  \E j \in 1..(i - 1) : last.converted[j] = parent[last.converted[i]]
        /\ \A k \in 1..Len(info_sets) :
              Cardinality({i \in 1..Len(last.moves) : Contains(info_sets[k], last.moves[i])}) = 1

----------------------------------------------------------------------------
(* C29 *)

\* C29: the validation of the wired graph always comes to an end, with a game
\* or with an error, also when a node is its own descendant: the constructor
\* is never held in a traversal without end.
C29_ValidationTerminates == pc # "walking"

----------------------------------------------------------------------------
(* C21 *)

\* C21: reading a Gambit game that has a terminal node without outcome fails
\* with the terminal-node-has-no-outcome error, and the game that was being
\* made has no nodes, leaves, players, information sets or root.
C21_NoOutcome ==
    ( /\ last.op = "gambit_to_sage"
      /\ \E q \in DOMAIN gambit_game.nodes :
            gambit_game.nodes[q].nchildren = 0 /\ gambit_game.nodes[q].outcome = 0 )
    => (last.raised = "no outcome" /\ NoGame /\ tree_root = FalseVal)

\* A Gambit game whose terminal nodes but one have an outcome was refused.
C21_Witness ==
    /\ last.op = "gambit_to_sage"
    /\ last.raised = "no outcome"
    /\ Cardinality({q \in DOMAIN gambit_game.nodes :
                        gambit_game.nodes[q].nchildren = 0 /\ gambit_game.nodes[q].outcome = 0}) = 1
    /\ \E q \in DOMAIN gambit_game.nodes :
          gambit_game.nodes[q].nchildren = 0 /\ gambit_game.nodes[q].outcome # 0

----------------------------------------------------------------------------
(* C22 *)

\* C22: when the objects of a Gambit game have been made, no action of the
\* game is blank any more and every action that had a label has kept it; if
\* the labelled actions of every move were labelled differently, no two
\* actions of a move have one label, and the node made for a decision node
\* has as many actions, and as many different children, as the decision node
\* has children.
C22_BlankActionsRenamed ==
    (pc = "converted" /\ last.op = "gambit_to_sage") =>
        LET g == gambit_game
            passed == last.passed
            node_dict == gambit_to_sage_node_dict(g)
        IN  /\ \A k \in DOMAIN g.infosets : \A i \in 1..Len(g.infosets[k].actions) :
                  /\ g.infosets[k].actions[i] # ""
                  /\ passed.infosets[k].actions[i] # ""
                        => g.infosets[k].actions[i] = passed.infosets[k].actions[i]
            /\ (\A k \in DOMAIN passed.infosets : \A i, j \in 1..Len(passed.infosets[k].actions) :
                    i # j /\ passed.infosets[k].actions[i] # ""
                        => passed.infosets[k].actions[i] # passed.infosets[k].actions[j])
                => /\ \A k \in DOMAIN g.infosets : \A i, j \in 1..Len(g.infosets[k].actions) :
                         i # j => g.infosets[k].actions[i] # g.infosets[k].actions[j]
                   /\ \A q \in DOMAIN g.nodes :
                         g.nodes[q].nchildren # 0 =>
                             /\ Len(actions[node_dict[q]]) = g.nodes[q].nchildren
                             /\ Cardinality(Range(children[node_dict[q]])) = g.nodes[q].nchildren

====
